---- MODULE Spec2Model ----
(***************************************************************************)
(* Heuristic labelling pipeline of src/app.py:                             *)
(*   clean_price_column -> create_seller_trust_level ->                    *)
(*   create_price_features -> create_heuristic_label                       *)
(* A DataFrame is a sequence of rows plus the set of its column names; a   *)
(* cell is a string, a number (an exact rational n/d) or NaN.              *)
(***************************************************************************)
EXTENDS Integers, Sequences, FiniteSets, TLC

VARIABLES
    df,        \* the DataFrame being processed: a sequence of rows
    columns,   \* the names of the columns df has
    pc,        \* the next stage of __main__: clean, trust, price, label, done, error
    run,       \* 1: the first run; 2: the run on the first run's output
    first,     \* the derived columns of the first run, kept for comparison
    preco_medio_calc_series, \* create_price_features' local: category -> mean
    row,       \* apply_rules alone: the row it is given
    result     \* apply_rules alone: what it returned (label and return line)

vars == <<df, columns, pc, run, first, preco_medio_calc_series, row, result>>
pipeVars == <<df, columns, pc, run, first, preco_medio_calc_series>>
ruleVars == <<row, result>>

(***************************************************************************)
(* Bounds of the model.                                                    *)
(***************************************************************************)
MaxRows == 2

(***************************************************************************)
(* Program constants.                                                      *)
(***************************************************************************)
DEFAULT_SELLER_TRUST == 1
MAX_PLAUSIBLE_PRICE_INDIVIDUAL == 20000
MAX_PLAUSIBLE_PRICE_AVERAGE == 5000

(***************************************************************************)
(* Cells.  float64 values are modelled as exact rationals in lowest terms. *)
(***************************************************************************)
NaN == [t |-> "nan", s |-> "", n |-> 0, d |-> 1]
Str(s) == [t |-> "str", s |-> s, n |-> 0, d |-> 1]
Absent == [t |-> "absent", s |-> "", n |-> 0, d |-> 1]

Abs(x) == IF x < 0 THEN -x ELSE x

RECURSIVE GCD(_, _)
GCD(a, b) == IF b = 0 THEN a ELSE GCD(b, a % b)

Rat(n, d) ==
    LET g == GCD(Abs(n), Abs(d))
        sgn == IF d < 0 THEN -1 ELSE 1
    IN [t |-> "num", s |-> "", n |-> sgn * (n \div g), d |-> sgn * (d \div g)]

Int2Rat(k) == Rat(k, 1)
Hundredths(k) == Rat(k, 100)

isna(c) == c.t = "nan"
notna(c) == c.t # "nan"

Lt(a, b) == a.n * b.d < b.n * a.d
Le(a, b) == a.n * b.d <= b.n * a.d
Ge(a, b) == Le(b, a)
Gt(a, b) == Lt(b, a)
RatAdd(a, b) == Rat(a.n * b.d + b.n * a.d, a.d * b.d)
RatSub(a, b) == Rat(a.n * b.d - b.n * a.d, a.d * b.d)
\* float division: x / 0 is +-inf or NaN, written here as NaN since every
\* use replaces inf, -inf and NaN alike
RatDiv(a, b) == IF b.n = 0 THEN NaN ELSE Rat(a.n * b.d, a.d * b.n)

(***************************************************************************)
(* Strings: str.strip, str.upper, str.lower                                *)
(***************************************************************************)
Char(s, i) == SubSeq(s, i, i)
IsSpace(c) == c \in {" ", "\t", "\n"}
IsDigit(c) == c \in {"0", "1", "2", "3", "4", "5", "6", "7", "8", "9"}

LowerChars == "abcdefghijklmnopqrstuvwxyzçíã"
UpperChars == "ABCDEFGHIJKLMNOPQRSTUVWXYZÇÍÃ"

UpperOf(c) ==
    IF \E i \in 1..Len(LowerChars) : Char(LowerChars, i) = c
    THEN Char(UpperChars, CHOOSE i \in 1..Len(LowerChars) : Char(LowerChars, i) = c)
    ELSE c
LowerOf(c) ==
    IF \E i \in 1..Len(UpperChars) : Char(UpperChars, i) = c
    THEN Char(LowerChars, CHOOSE i \in 1..Len(UpperChars) : Char(UpperChars, i) = c)
    ELSE c

RECURSIVE upper(_)
upper(s) == IF s = "" THEN "" ELSE UpperOf(Head(s)) \o upper(Tail(s))
RECURSIVE lower(_)
lower(s) == IF s = "" THEN "" ELSE LowerOf(Head(s)) \o lower(Tail(s))

RECURSIVE lstrip(_)
lstrip(s) == IF s # "" /\ IsSpace(Head(s)) THEN lstrip(Tail(s)) ELSE s
RECURSIVE rstrip(_)
rstrip(s) ==
    IF s # "" /\ IsSpace(Char(s, Len(s))) THEN rstrip(SubSeq(s, 1, Len(s) - 1)) ELSE s
strip(s) == rstrip(lstrip(s))

\* astype(str) / str(x) of a cell holding a string or a missing value
astype_str(c) == IF c.t = "str" THEN c.s ELSE "nan"

(***************************************************************************)
(* clean_price_column: the four str.replace calls and pd.to_numeric        *)
(***************************************************************************)
\* .str.replace(r'R\$', '')
RECURSIVE RemoveCurrency(_)
RemoveCurrency(s) ==
    IF s = "" THEN ""
    ELSE IF Len(s) >= 2 /\ SubSeq(s, 1, 2) = "R$"
         THEN RemoveCurrency(SubSeq(s, 3, Len(s)))
         ELSE Head(s) \o RemoveCurrency(Tail(s))

\* .str.replace(r'\s+', '')
RECURSIVE RemoveSpaces(_)
RemoveSpaces(s) ==
    IF s = "" THEN ""
    ELSE IF IsSpace(Head(s)) THEN RemoveSpaces(Tail(s))
         ELSE Head(s) \o RemoveSpaces(Tail(s))

\* the lookahead (?=.*\d{3}(?:,|$)) evaluated right after position i of s
ThousandsLookahead(s, i) ==
    \E j \in (i + 1)..(Len(s) - 2) :
        /\ IsDigit(Char(s, j)) /\ IsDigit(Char(s, j + 1)) /\ IsDigit(Char(s, j + 2))
        /\ (j + 2 = Len(s) \/ Char(s, j + 3) = ",")

\* .str.replace(r'\.(?=.*\d{3}(?:,|$))', ''): every match is found in s itself
RECURSIVE RemoveThousandsFrom(_, _)
RemoveThousandsFrom(s, i) ==
    IF i > Len(s) THEN ""
    ELSE (IF Char(s, i) = "." /\ ThousandsLookahead(s, i) THEN "" ELSE Char(s, i))
         \o RemoveThousandsFrom(s, i + 1)
RemoveThousands(s) == RemoveThousandsFrom(s, 1)

\* .str.replace(',', '.')
RECURSIVE CommaToDot(_)
CommaToDot(s) ==
    IF s = "" THEN ""
    ELSE (IF Head(s) = "," THEN "." ELSE Head(s)) \o CommaToDot(Tail(s))

price_text(s) == CommaToDot(RemoveThousands(RemoveSpaces(RemoveCurrency(s))))

DigitVal(c) == CHOOSE k \in 0..9 : Char("0123456789", k + 1) = c
RECURSIVE DigitsVal(_)
DigitsVal(s) ==
    IF s = "" THEN 0
    ELSE DigitsVal(SubSeq(s, 1, Len(s) - 1)) * 10 + DigitVal(Char(s, Len(s)))
RECURSIVE Pow10(_)
Pow10(k) == IF k = 0 THEN 1 ELSE 10 * Pow10(k - 1)
AllDigits(s) == \A i \in 1..Len(s) : IsDigit(Char(s, i))

\* pd.to_numeric(..., errors='coerce') of one string: a signed decimal
\* literal parses to its value, any other text (also 'nan') becomes NaN.
\* The texts of the initial tables are decimal literals or words; exponent
\* and 'inf' spellings, which pandas also parses, are not among them.
to_numeric_str(s) ==
    LET neg == s # "" /\ Head(s) = "-"
        body == IF s # "" /\ Head(s) \in {"-", "+"} THEN Tail(s) ELSE s
        dots == {i \in 1..Len(body) : Char(body, i) = "."}
        p == IF dots = {} THEN Len(body) + 1 ELSE CHOOSE i \in dots : TRUE
        ip == SubSeq(body, 1, p - 1)
        fp == SubSeq(body, p + 1, Len(body))
        valid == /\ Cardinality(dots) <= 1
                 /\ AllDigits(ip) /\ AllDigits(fp)
                 /\ Len(ip) + Len(fp) >= 1
        mag == DigitsVal(ip \o fp)
    IN IF valid THEN Rat(IF neg THEN -mag ELSE mag, Pow10(Len(fp))) ELSE NaN

to_numeric(c) == IF c.t = "str" THEN to_numeric_str(c.s) ELSE c

(***************************************************************************)
(* create_heuristic_label.apply_rules, one operator per level of the       *)
(* cascade.  A level returns the label with the source line of the return  *)
(* statement taken, or NoMatch when control falls through to the next.     *)
(***************************************************************************)
Ret(label, line) == [label |-> label, line |-> line]
NoMatch == [label |-> "", line |-> 0]

ClaimsOriginal == {"original", "verdadeiro", "genuíno"}
ClaimsNaoOriginal == {"falso", "não original", "pirata", "suspeito", "alternativo"}
ClaimsDesconhecido == {"desconhecido", "nan", "na", "categoria_ausente_ou_invalida"}

\* desvio = row[...] if pd.notna(row[...]) else 0
desvio_of(r) ==
    IF notna(r.desvio_preco_media_categoria)
    THEN r.desvio_preco_media_categoria ELSE Int2Rat(0)
\* nota_q = row['nota_qualidade'] if pd.notna(row['nota_qualidade']) else 3
nota_q_of(r) == IF notna(r.nota_qualidade) THEN r.nota_qualidade ELSE Int2Rat(3)

rules_nivel1(r) ==
    IF r.originalidade_norm = "compatível" THEN Ret("compativel", 147)
    ELSE IF r.originalidade_norm \in ClaimsNaoOriginal
         THEN Ret("nao_original_declarado", 149)
         ELSE NoMatch

rules_trust1(r) ==
    IF r.seller_trust_level = 1
    THEN IF Lt(desvio_of(r), Hundredths(-40))
         THEN Ret("pirata_provavel_preco_vendedor_ruim", 153)
         ELSE IF notna(r.nota_qualidade) /\ Lt(nota_q_of(r), Rat(25, 10))
              THEN Ret("pirata_provavel_nota_vendedor_ruim", 154)
              ELSE IF /\ r.originalidade_norm \in ClaimsOriginal
                      /\ Ge(desvio_of(r), Hundredths(-20))
                   THEN Ret("avaliar_manual_alegado_original_vendedor_suspeito", 157)
                   ELSE NoMatch
    ELSE NoMatch

rules_trust2(r) ==
    IF r.seller_trust_level = 2
    THEN IF Lt(desvio_of(r), Hundredths(-60))
         THEN Ret("pirata_provavel_preco_muito_baixo_vendedor_neutro", 160)
         ELSE IF /\ r.originalidade_norm \in ClaimsOriginal
                 /\ Lt(desvio_of(r), Hundredths(-30))
              THEN Ret("avaliar_manual_alegado_original_vendedor_neutro_preco_baixo", 163)
              ELSE NoMatch
    ELSE NoMatch

rules_nivel3_mut_trust(r) ==
    IF r.originalidade_norm \in ClaimsOriginal
    THEN IF r.seller_trust_level >= 2
         THEN IF Ge(desvio_of(r), Hundredths(-30)) THEN Ret("original", 168)
              ELSE IF Ge(desvio_of(r), Hundredths(-50))
                   THEN Ret("avaliar_manual_original_preco_baixo_vendedor_confiavel", 170)
                   ELSE Ret("avaliar_manual_original_preco_MUITO_baixo_vendedor_confiavel", 172)
         ELSE IF r.seller_trust_level = 1
              THEN Ret("avaliar_manual_alegado_original_vendedor_suspeito", 178)
              ELSE NoMatch
    ELSE NoMatch

rules_nivel3_mut_neutro(r) ==
    IF r.originalidade_norm \in ClaimsOriginal
    THEN IF r.seller_trust_level = 3
         THEN IF Ge(desvio_of(r), Hundredths(-30)) THEN Ret("original", 168)
              ELSE IF Ge(desvio_of(r), Hundredths(-50))
                   THEN Ret("avaliar_manual_original_preco_baixo_vendedor_confiavel", 170)
                   ELSE Ret("avaliar_manual_original_preco_MUITO_baixo_vendedor_confiavel", 172)
         ELSE IF r.seller_trust_level = 2 /\ Ge(desvio_of(r), Hundredths(-30))
              THEN Ret("avaliar_manual_alegado_original_vendedor_neutro", 175)
              ELSE IF r.seller_trust_level = 1
                   THEN Ret("avaliar_manual_alegado_original_vendedor_suspeito", 178)
                   ELSE NoMatch
    ELSE NoMatch

rules_nivel3(r) ==
    IF r.originalidade_norm \in ClaimsOriginal
    THEN IF r.seller_trust_level = 3
         THEN IF Ge(desvio_of(r), Hundredths(-30)) THEN Ret("original", 168)
              ELSE IF Lt(desvio_of(r), Hundredths(-30)) /\ Ge(desvio_of(r), Hundredths(-50))
                   THEN Ret("avaliar_manual_original_preco_baixo_vendedor_confiavel", 170)
                   ELSE Ret("avaliar_manual_original_preco_MUITO_baixo_vendedor_confiavel", 172)
         ELSE IF r.seller_trust_level = 2 /\ Ge(desvio_of(r), Hundredths(-20))
              THEN Ret("avaliar_manual_alegado_original_vendedor_neutro", 175)
              ELSE IF r.seller_trust_level = 1
                   THEN Ret("avaliar_manual_alegado_original_vendedor_suspeito", 178)
                   ELSE NoMatch
    ELSE NoMatch

rules_nivel4(r) ==
    IF r.originalidade_norm \in ClaimsDesconhecido
    THEN IF r.seller_trust_level = 3
         THEN IF Ge(desvio_of(r), Hundredths(-30))
              THEN Ret("original_provavel_orig_desconhecida_vendedor_confiavel", 183)
              ELSE Ret("avaliar_manual_orig_desconhecida_vendedor_confiavel_preco_baixo", 184)
         ELSE IF r.seller_trust_level = 2
              THEN Ret("avaliar_manual_orig_desconhecida_vendedor_neutro", 185)
              ELSE IF r.seller_trust_level = 1
                   THEN IF Lt(desvio_of(r), Hundredths(-30))
                        THEN Ret("pirata_provavel_orig_desconhecida_vendedor_suspeito_preco_baixo", 188)
                        ELSE Ret("avaliar_manual_orig_desconhecida_vendedor_suspeito", 189)
                   ELSE NoMatch
    ELSE NoMatch

Fallback == Ret("avaliar_manual_geral_sem_classificacao_clara", 191)

\* the first level that returns decides
FirstOf(levels) ==
    IF \E i \in 1..Len(levels) : levels[i] # NoMatch
    THEN levels[CHOOSE i \in 1..Len(levels) :
                    /\ levels[i] # NoMatch
                    /\ \A j \in 1..(i - 1) : levels[j] = NoMatch]
    ELSE Fallback

\* mutant: the seller checks run before the explicit non-original claims
apply_rules_mut_order(r) ==
    FirstOf(<<rules_trust1(r), rules_trust2(r), rules_nivel1(r),
              rules_nivel3(r), rules_nivel4(r)>>)

\* mutant: the trust-1 safety net of level 3 is tried before the trust-1 level
apply_rules_mut_net(r) ==
    FirstOf(<<rules_nivel1(r), rules_nivel3(r), rules_trust1(r), rules_trust2(r),
              rules_nivel4(r)>>)

apply_rules(r) ==
    FirstOf(<<rules_nivel1(r), rules_trust1(r), rules_trust2(r),
              rules_nivel3(r), rules_nivel4(r)>>)

(***************************************************************************)
(* DataFrames                                                              *)
(***************************************************************************)
InputColumns == {"preco", "vendedor", "tipo_cartucho", "originalidade", "nota_qualidade"}
DerivedColumns == {"seller_trust_level", "preco_medio_categoria",
                   "desvio_preco_media_categoria", "label_heuristico_calculado"}

MkRow(p, v, c, o, q) ==
    [preco |-> p, vendedor |-> v, tipo_cartucho |-> c, originalidade |-> o,
     nota_qualidade |-> q, seller_trust_level |-> Absent,
     preco_medio_categoria |-> Absent, desvio_preco_media_categoria |-> Absent,
     label_heuristico_calculado |-> Absent]

Rows(d) == 1..Len(d)
\* pandas gives a column the dtype object when it holds text
is_numeric_dtype(d, col) == \A i \in Rows(d) : d[i][col].t # "str"

\* float arithmetic with NaN operands
FSub(a, b) == IF isna(a) \/ isna(b) THEN NaN ELSE RatSub(a, b)
FDiv(a, b) == IF isna(a) \/ isna(b) THEN NaN ELSE RatDiv(a, b)
\* .replace([np.inf, -np.inf, np.nan], 0)
replace_inf_nan(c) == IF isna(c) THEN Int2Rat(0) ELSE c

(***************************************************************************)
(* clean_price_column                                                      *)
(***************************************************************************)
\* mutant: an implausible price is kept
cap_individual_mut_keep(c) == c

\* df.loc[df[col] > max_plausible_price, col] = np.nan
cap_individual(c) ==
    IF notna(c) /\ Gt(c, Int2Rat(MAX_PLAUSIBLE_PRICE_INDIVIDUAL)) THEN NaN ELSE c

clean_price_column(d, cols) ==
    IF "preco" \notin cols THEN d
    ELSE LET txt == IF ~is_numeric_dtype(d, "preco")
                    THEN [i \in Rows(d) |->
                             [d[i] EXCEPT !.preco = Str(price_text(astype_str(d[i].preco)))]]
                    ELSE d
         IN [i \in Rows(d) |->
                [txt[i] EXCEPT !.preco = cap_individual(to_numeric(txt[i].preco))]]

(***************************************************************************)
(* create_seller_trust_level                                               *)
(***************************************************************************)
SELLER_TRUST_MAP ==
    ("CARREFOUR" :> 3) @@ ("OBERO INFORMATICA" :> 3) @@ ("HP OFICIAL" :> 3) @@
    ("MAGAZINE LUIZA" :> 3) @@ ("AMERICANAS" :> 3) @@ ("KABUM" :> 3) @@
    ("INKCOR" :> 1) @@ ("CASAPRINT SPEED" :> 1) @@ ("PARK ECOM" :> 1) @@
    ("JRWIMPORTACAO" :> 1) @@ ("TONER SHOPS" :> 1) @@ ("VANMASTERCOMERCIO" :> 1) @@
    ("ESHOP" :> 1) @@ ("OUTLET PREÇOBAIXO" :> 1) @@ ("SARAIVA COMERCIO" :> 1) @@
    ("SCOTCH" :> 1) @@ ("SIAD8238404" :> 2)

get_trust(seller_name) ==
    IF isna(seller_name) THEN DEFAULT_SELLER_TRUST
    ELSE LET k == upper(strip(astype_str(seller_name)))
         IN IF k \in DOMAIN SELLER_TRUST_MAP THEN SELLER_TRUST_MAP[k]
            ELSE DEFAULT_SELLER_TRUST

\* df[seller_name_col] raises KeyError when the column is missing
seller_trust_raises(cols) == "vendedor" \notin cols

create_seller_trust_level(d) ==
    [i \in Rows(d) |->
        [d[i] EXCEPT !.seller_trust_level = Int2Rat(get_trust(d[i].vendedor))]]

(***************************************************************************)
(* create_price_features                                                   *)
(***************************************************************************)
CATEGORIA_AUSENTE_OU_INVALIDA == "CATEGORIA_AUSENTE_OU_INVALIDA"

\* mutant: the blank test runs on the text before it is stripped
normalize_category_mut_order(c) ==
    LET s == astype_str(c)
    IN Str(IF s \in {"", "nan", "None", "NAN", "NONE"}
           THEN CATEGORIA_AUSENTE_OU_INVALIDA ELSE strip(s))

\* df[category_col].astype(str).str.strip(), then the .isin(...) replacement
normalize_category(c) ==
    LET s == strip(astype_str(c))
    IN Str(IF s \in {"", "nan", "None", "NAN", "NONE"}
           THEN CATEGORIA_AUSENTE_OU_INVALIDA ELSE s)

\* Series.mean() of the non-null prices of the rows S (NaN when there is none)
RECURSIVE SumPreco(_, _)
SumPreco(d, S) ==
    IF S = {} THEN Int2Rat(0)
    ELSE LET i == CHOOSE x \in S : TRUE
         IN RatAdd(d[i].preco, SumPreco(d, S \ {i}))
MeanPreco(d, S) ==
    LET N == {i \in S : notna(d[i].preco)}
    IN IF N = {} THEN NaN ELSE RatDiv(SumPreco(d, N), Int2Rat(Cardinality(N)))

\* df.dropna(subset=[price_col, category_col])
valid_for_grouping(d) ==
    {i \in Rows(d) : notna(d[i].preco) /\ notna(d[i].tipo_cartucho)}

EmptySeries == [c \in {} |-> NaN]

\* valid_for_grouping.groupby(category_col)[price_col].mean()
groupby_mean(d) ==
    LET V == valid_for_grouping(d)
    IN IF V # {} /\ (\E i \in V : notna(d[i].preco))
       THEN [c \in {d[i].tipo_cartucho.s : i \in V} |->
                MeanPreco(d, {i \in V : d[i].tipo_cartucho.s = c})]
       ELSE EmptySeries

\* mutant: the mean is tested against the individual price cap
cap_average_mut_limit(m) ==
    IF notna(m) /\ (Gt(m, Int2Rat(MAX_PLAUSIBLE_PRICE_INDIVIDUAL)) \/ Le(m, Int2Rat(0)))
    THEN NaN ELSE m

\* (avg > max_plausible_avg_price) | (avg <= 0)  ->  NaN
cap_average(m) ==
    IF notna(m) /\ (Gt(m, Int2Rat(MAX_PLAUSIBLE_PRICE_AVERAGE)) \/ Le(m, Int2Rat(0)))
    THEN NaN ELSE m

\* mutant: the non-finite deviations are left in place
deviation_mut_keep(price, avg) == FDiv(FSub(price, avg), avg)

\* (price - avg) / avg with inf, -inf and NaN replaced by 0
deviation(price, avg) == replace_inf_nan(FDiv(FSub(price, avg), avg))

WithFeatures(r, avg) ==
    [r EXCEPT !.preco_medio_categoria = avg,
              !.desvio_preco_media_categoria = deviation(r.preco, avg)]

create_price_features(d, cols) ==
    IF "preco" \notin cols \/ ~is_numeric_dtype(d, "preco")
    THEN [df |-> [i \in Rows(d) |->
                     [d[i] EXCEPT !.preco_medio_categoria = NaN,
                                  !.desvio_preco_media_categoria = Int2Rat(0)]],
          series |-> EmptySeries]
    ELSE IF "tipo_cartucho" \notin cols
    THEN LET geral_mean_price == cap_average(MeanPreco(d, Rows(d)))
         IN [df |-> [i \in Rows(d) |-> WithFeatures(d[i], geral_mean_price)],
             series |-> EmptySeries]
    ELSE LET n == [i \in Rows(d) |->
                      [d[i] EXCEPT !.tipo_cartucho = normalize_category(d[i].tipo_cartucho)]]
             calc == groupby_mean(n)
             temp(i) == IF n[i].tipo_cartucho.s \in DOMAIN calc
                        THEN calc[n[i].tipo_cartucho.s] ELSE NaN
         IN [df |-> [i \in Rows(d) |-> WithFeatures(n[i], cap_average(temp(i)))],
             series |-> calc]

(***************************************************************************)
(* create_heuristic_label                                                  *)
(***************************************************************************)
originalidade_norm(r, cols) ==
    IF "originalidade" \in cols THEN lower(strip(astype_str(r.originalidade)))
    ELSE "desconhecido"

nota_qualidade_column(d, cols) ==
    IF "nota_qualidade" \in cols
    THEN IF ~is_numeric_dtype(d, "nota_qualidade")
         THEN [i \in Rows(d) |-> to_numeric(d[i].nota_qualidade)]
         ELSE [i \in Rows(d) |-> d[i].nota_qualidade]
    ELSE [i \in Rows(d) |-> NaN]

RuleRow(claim, desvio, trust, nota) ==
    [originalidade_norm |-> claim, desvio_preco_media_categoria |-> desvio,
     seller_trust_level |-> trust, nota_qualidade |-> nota]

create_heuristic_label(d, cols) ==
    LET nota == nota_qualidade_column(d, cols)
    IN [i \in Rows(d) |->
           [d[i] EXCEPT
               !.nota_qualidade = nota[i],
               !.label_heuristico_calculado =
                   Str(apply_rules(RuleRow(originalidade_norm(d[i], cols),
                                           d[i].desvio_preco_media_categoria,
                                           d[i].seller_trust_level.n,
                                           nota[i])).label)]]

(***************************************************************************)
(* The stages of __main__ as actions.                                      *)
(***************************************************************************)
CleanPrice ==
    /\ pc = "clean"
    /\ df' = clean_price_column(df, columns)
    /\ pc' = "trust"
    /\ UNCHANGED <<columns, run, first, preco_medio_calc_series, ruleVars>>

SellerTrust ==
    /\ pc = "trust"
    /\ IF seller_trust_raises(columns)
       THEN /\ pc' = "error"
            /\ UNCHANGED <<df, columns>>
       ELSE /\ df' = create_seller_trust_level(df)
            /\ columns' = columns \cup {"seller_trust_level"}
            /\ pc' = "price"
    /\ UNCHANGED <<run, first, preco_medio_calc_series, ruleVars>>

PriceFeatures ==
    /\ pc = "price"
    /\ LET out == create_price_features(df, columns)
       IN /\ df' = out.df
          /\ preco_medio_calc_series' = out.series
    /\ columns' = columns \cup {"preco_medio_categoria", "desvio_preco_media_categoria"}
    /\ pc' = "label"
    /\ UNCHANGED <<run, first, ruleVars>>

HeuristicLabel ==
    /\ pc = "label"
    /\ df' = create_heuristic_label(df, columns)
    /\ columns' = columns \cup {"nota_qualidade", "label_heuristico_calculado"}
    /\ pc' = "done"
    /\ UNCHANGED <<run, first, preco_medio_calc_series, ruleVars>>

\* The derived columns of a finished run.
Derived(d) ==
    [i \in Rows(d) |->
        [seller_trust_level |-> d[i].seller_trust_level,
         preco_medio_categoria |-> d[i].preco_medio_categoria,
         desvio_preco_media_categoria |-> d[i].desvio_preco_media_categoria,
         label_heuristico_calculado |-> d[i].label_heuristico_calculado]]

StripDerived(d) ==
    [i \in Rows(d) |->
        [d[i] EXCEPT !.seller_trust_level = Absent,
                     !.preco_medio_categoria = Absent,
                     !.desvio_preco_media_categoria = Absent,
                     !.label_heuristico_calculado = Absent]]

\* The output of the first run, its derived columns dropped, is fed to __main__ again.
Rerun ==
    /\ pc = "done"
    /\ run = 1
    /\ first' = Derived(df)
    /\ df' = StripDerived(df)
    /\ columns' = columns \ DerivedColumns
    /\ run' = 2
    /\ pc' = "clean"
    /\ UNCHANGED <<preco_medio_calc_series, ruleVars>>

\* apply_rules on one row, on its own
ApplyRules ==
    /\ pc = "rules"
    /\ result = NoMatch
    /\ result' = apply_rules(row)
    /\ UNCHANGED <<pipeVars, row>>

(***************************************************************************)
(* Inputs.  A loaded table has 1..MaxRows rows; a column that is missing   *)
(* from the file is missing from every row.                                *)
(***************************************************************************)
MaskRow(r, cols) ==
    [r EXCEPT !.preco = IF "preco" \in cols THEN @ ELSE Absent,
              !.vendedor = IF "vendedor" \in cols THEN @ ELSE Absent,
              !.tipo_cartucho = IF "tipo_cartucho" \in cols THEN @ ELSE Absent,
              !.originalidade = IF "originalidade" \in cols THEN @ ELSE Absent,
              !.nota_qualidade = IF "nota_qualidade" \in cols THEN @ ELSE Absent]
MaskTable(t, cols) == [i \in DOMAIN t |-> MaskRow(t[i], cols)]

\* the tables of 1..MaxRows rows over a set of records
Tables(records) == UNION {[1..n -> records] : n \in 1..MaxRows}

NoRow == RuleRow("", NaN, 0, NaN)

\* whole records, every column of which may be missing from the file
SampleRecords ==
    { MkRow(Str("R$ 100,00"), Str("KABUM"), Str("HP 664"), Str("Original"), Str("4.5")),
      MkRow(Str("R$ 50,00"), Str(" inkcor "), Str("HP 664 "), Str("original"), NaN),
      MkRow(Str("89,90"), Str("Loja X"), Str(" "), Str("Pirata"), Str("2")),
      MkRow(NaN, NaN, NaN, NaN, NaN),
      MkRow(Str("R$ 6.000,00"), Str("SIAD8238404"), Str(""), Str("GENUÍNO "), Str("abc")),
      MkRow(Str("25.000,00"), Str("Carrefour"), Str("HP 664"), Str("compatível"), Str("1.0")),
      MkRow(Str("40,00"), Str("siad8238404"), Str("HP 664"), Str("verdadeiro"), Str("3")) }

Init ==
    /\ \E cols \in SUBSET InputColumns : \E t \in Tables(SampleRecords) :
          /\ df = MaskTable(t, cols)
          /\ columns = cols
    /\ pc = "clean"
    /\ run = 1
    /\ first = <<>>
    /\ preco_medio_calc_series = EmptySeries
    /\ row = NoRow
    /\ result = NoMatch

Next == CleanPrice \/ SellerTrust \/ PriceFeatures \/ HeuristicLabel \/ Rerun

Spec == Init /\ [][Next]_vars

\* price and category cells in every combination, the other columns fixed
PriceTexts == {Str("R$ 100,00"), Str("60,00"), Str("R$ 6.000,00"), Str("25.000,00"),
               Str("-50,00"), Str("abc"), NaN}
PriceNumbers == {Int2Rat(100), Int2Rat(25000), NaN}
Categories == {Str("A"), Str(" A "), Str("B"), Str(""), NaN}

PriceRecords(prices) ==
    {MkRow(p, Str("KABUM"), c, Str("original"), NaN) : p \in prices, c \in Categories}

InitPrice ==
    /\ \E cols \in {InputColumns \ x : x \in SUBSET {"preco", "tipo_cartucho"}} :
       \E t \in Tables(PriceRecords(PriceTexts)) \cup Tables(PriceRecords(PriceNumbers)) :
          /\ df = MaskTable(t, cols)
          /\ columns = cols
    /\ pc = "clean"
    /\ run = 1
    /\ first = <<>>
    /\ preco_medio_calc_series = EmptySeries
    /\ row = NoRow
    /\ result = NoMatch

NextPrice == CleanPrice \/ SellerTrust \/ PriceFeatures

SpecPrice == InitPrice /\ [][NextPrice]_vars

\* the inputs of apply_rules: every claim text the cascade names and some it
\* does not, deviations on and around every threshold, scores around 2.5
RuleClaims == ClaimsOriginal \cup ClaimsNaoOriginal \cup ClaimsDesconhecido
              \cup {"compatível", "compativel", "novo", ""}
RuleDesvios == {Hundredths(k) : k \in {-70, -61, -60, -51, -50, -41, -40, -31, -30,
                                       -21, -20, -19, 0, 50}} \cup {NaN}
RuleNotas == {NaN, Int2Rat(0), Rat(249, 100), Rat(25, 10), Int2Rat(3), Int2Rat(5)}
RuleTrusts == {1, 2, 3}

InitRules ==
    /\ row \in {RuleRow(c, dv, tr, q) :
                   c \in RuleClaims, dv \in RuleDesvios, tr \in RuleTrusts, q \in RuleNotas}
    /\ result = NoMatch
    /\ df = <<>>
    /\ columns = {}
    /\ pc = "rules"
    /\ run = 1
    /\ first = <<>>
    /\ preco_medio_calc_series = EmptySeries

NextRules == ApplyRules

SpecRules == InitRules /\ [][NextRules]_vars

(***************************************************************************)
(* Properties                                                              *)
(***************************************************************************)
Applied == pc = "rules" /\ result # NoMatch
Dev == desvio_of(row)
InRange(x, lo, hi) == Ge(x, Hundredths(lo)) /\ Lt(x, Hundredths(hi))

\* C1: whatever subset of the input columns is missing, the four stages run
\* to the end without raising, and every row of a finished run has a label.
C1_NoFatalErrorPath ==
    /\ pc # "error"
    /\ pc = "done" => \A i \in Rows(df) : df[i].label_heuristico_calculado.t = "str"

\* C2: for a trust-1 seller and a claim of originality, apply_rules returns
\* pirata_provavel_preco_vendedor_ruim when the deviation is below -0.40,
\* else pirata_provavel_nota_vendedor_ruim when a score is present and below
\* 2.5, else avaliar_manual_alegado_original_vendedor_suspeito: from line
\* 157 when the deviation is >= -0.20 and from the safety net of line 178
\* when it is in [-0.40, -0.20).
C2_SuspectSellerOriginalClaim ==
    (Applied /\ row.seller_trust_level = 1 /\ row.originalidade_norm \in ClaimsOriginal)
    => result =
        IF Lt(Dev, Hundredths(-40))
        THEN Ret("pirata_provavel_preco_vendedor_ruim", 153)
        ELSE IF row.nota_qualidade.t = "num" /\ Lt(row.nota_qualidade, Rat(5, 2))
        THEN Ret("pirata_provavel_nota_vendedor_ruim", 154)
        ELSE IF Ge(Dev, Hundredths(-20))
        THEN Ret("avaliar_manual_alegado_original_vendedor_suspeito", 157)
        ELSE Ret("avaliar_manual_alegado_original_vendedor_suspeito", 178)

\* C2 witness: the safety net of line 178 has labelled a trust-1 record that
\* claims originality and whose deviation is in [-0.40, -0.20).
C2_Witness ==
    /\ Applied /\ row.seller_trust_level = 1 /\ row.originalidade_norm \in ClaimsOriginal
    /\ InRange(Dev, -40, -20)
    /\ result.line = 178

\* C3: a claim of 'compatível' is labelled compativel and a claim of falso,
\* não original, pirata, suspeito or alternativo is labelled
\* nao_original_declarado, whatever the trust, deviation and score.
C3_ExplicitClaimOverrides ==
    Applied =>
        /\ row.originalidade_norm = "compatível" => result.label = "compativel"
        /\ row.originalidade_norm \in {"falso", "não original", "pirata", "suspeito",
                                       "alternativo"}
              => result.label = "nao_original_declarado"

\* C3 witness: a 'pirata' claim from a trust-1 seller at a deviation below
\* -0.40 and with a score below 2.5 is labelled nao_original_declarado.
C3_Witness ==
    /\ Applied /\ row.originalidade_norm = "pirata" /\ row.seller_trust_level = 1
    /\ Lt(Dev, Hundredths(-40))
    /\ row.nota_qualidade.t = "num" /\ Lt(row.nota_qualidade, Rat(5, 2))
    /\ result.label = "nao_original_declarado"

\* C9: the label 'original' is returned only for trust 3, a claim of
\* originality and a deviation >= -0.30.
C9_OriginalOnlyForTrustedSeller ==
    (Applied /\ result.label = "original")
    => /\ row.seller_trust_level = 3
       /\ row.originalidade_norm \in {"original", "verdadeiro", "genuíno"}
       /\ Ge(Dev, Hundredths(-30))

\* C9 witness: some record is labelled 'original' at a deviation of exactly -0.30.
C9_Witness ==
    Applied /\ result.label = "original" /\ Dev = Hundredths(-30)

\* C10: among the records with a recognized claim, the fallback label is
\* returned exactly for a claim of originality, trust 2 and a deviation in
\* [-0.30, -0.20).
C10_FallbackExactly ==
    (Applied /\ row.originalidade_norm \in
                   {"compatível"} \cup ClaimsNaoOriginal \cup ClaimsOriginal
                   \cup ClaimsDesconhecido)
    => ((result.label = "avaliar_manual_geral_sem_classificacao_clara")
        <=> (/\ row.originalidade_norm \in ClaimsOriginal
             /\ row.seller_trust_level = 2
             /\ InRange(Dev, -30, -20)))

\* C10 witness: a trust-2 record claiming originality has fallen through to
\* the fallback of line 191.
C10_Witness ==
    /\ Applied /\ row.originalidade_norm \in ClaimsOriginal /\ row.seller_trust_level = 2
    /\ result = Fallback

\* create_price_features has just returned, in the per-category mode
AfterFeatures == pc = "label"
NormalMode == AfterFeatures /\ "preco" \in columns /\ "tipo_cartucho" \in columns
IsNum(c) == c.t = "num"
RowsOf(c) == {i \in Rows(df) : df[i].tipo_cartucho.s = c}
Priced(S) == {i \in S : IsNum(df[i].preco)}
Total(S) == SumPreco(df, S)
Zero == Int2Rat(0)

\* C4: in the per-category mode a record whose category was missing or
\* blank contributes to no mean: no mean is computed for the sentinel
\* category, and its rows are given none.
C4_SentinelRowsContributeToNoMean ==
    NormalMode =>
        /\ CATEGORIA_AUSENTE_OU_INVALIDA \notin DOMAIN preco_medio_calc_series
        /\ \A i \in RowsOf(CATEGORIA_AUSENTE_OU_INVALIDA) :
              ~IsNum(df[i].preco_medio_categoria)

\* C5: in the per-category mode no stored price exceeds 20000.00, a mean is
\* computed for exactly the categories that have a row with a price, that
\* mean times the number of such rows is the sum of their prices, and the
\* rows of a category without any price have a null mean.
C5_MeanOfPricedRows ==
    NormalMode =>
        /\ \A i \in Rows(df) :
              IsNum(df[i].preco) => Le(df[i].preco, Int2Rat(20000))
        /\ DOMAIN preco_medio_calc_series =
              {df[i].tipo_cartucho.s : i \in Priced(Rows(df))}
        /\ \A c \in DOMAIN preco_medio_calc_series :
              LET m == preco_medio_calc_series[c]
                  k == Cardinality(Priced(RowsOf(c)))
              IN IsNum(m) /\ Rat(m.n * k, m.d) = Total(Priced(RowsOf(c)))
        /\ \A i \in Rows(df) :
              Priced(RowsOf(df[i].tipo_cartucho.s)) = {}
                  => ~IsNum(df[i].preco_medio_categoria)

\* C5 witness: a category's mean has been computed from two rows with
\* different prices, whose category texts differed before normalization.
C5_Witness ==
    /\ NormalMode
    /\ \E c \in DOMAIN preco_medio_calc_series :
          \E i, j \in Priced(RowsOf(c)) :
              /\ df[i].preco # df[j].preco
              /\ preco_medio_calc_series[c] # df[i].preco

\* C6: after create_price_features, in every mode, a stored category mean
\* is null or lies in (0, 5000.00]; and the rows of a category whose
\* computed mean exceeds 5000.00 have a null mean and a deviation of 0.
C6_StoredMeanWithinCap ==
    AfterFeatures =>
        /\ \A i \in Rows(df) :
              LET m == df[i].preco_medio_categoria
              IN IsNum(m) => (Gt(m, Zero) /\ Le(m, Int2Rat(5000)))
        /\ \A c \in DOMAIN preco_medio_calc_series :
              Gt(preco_medio_calc_series[c], Int2Rat(5000)) =>
                  \A i \in RowsOf(c) :
                      /\ ~IsNum(df[i].preco_medio_categoria)
                      /\ df[i].desvio_preco_media_categoria = Zero

\* C6 witness: a category's computed mean is above 5000.00 and one of its
\* rows has a price.
C6_Witness ==
    /\ AfterFeatures
    /\ \E c \in DOMAIN preco_medio_calc_series :
          /\ Gt(preco_medio_calc_series[c], Int2Rat(5000))
          /\ Priced(RowsOf(c)) # {}

\* C7: after create_price_features every row's deviation is a finite
\* number; it is 0 when the row's price or stored mean is null; otherwise
\* deviation * mean + mean = price, i.e. it is (price - mean) / mean.
C7_DeviationDefined ==
    AfterFeatures =>
        \A i \in Rows(df) :
            LET dv == df[i].desvio_preco_media_categoria
                m == df[i].preco_medio_categoria
                p == df[i].preco
            IN /\ IsNum(dv)
               /\ (~IsNum(p) \/ ~IsNum(m)) => dv = Zero
               /\ (IsNum(p) /\ IsNum(m)) =>
                     /\ m.n # 0
                     /\ RatAdd(Rat(dv.n * m.n, dv.d * m.d), m) = p

\* C7 witness: a row with a price and a stored mean has a deviation below 0.
C7_Witness ==
    /\ AfterFeatures
    /\ \E i \in Rows(df) :
          /\ IsNum(df[i].preco) /\ IsNum(df[i].preco_medio_categoria)
          /\ Lt(df[i].desvio_preco_media_categoria, Zero)

\* C8: when the output of a finished run, its derived columns dropped, is
\* run through the pipeline again, the second run finishes too and its
\* derived columns equal the first run's, row by row.
C8_Idempotent ==
    run = 2 =>
        /\ pc # "error"
        /\ pc = "done" => Derived(df) = first

\* C8 witness: a second run has finished on a table with a price that the
\* first run parsed from text, a category it normalized and a row priced
\* away from its category's mean.
C8_Witness ==
    /\ run = 2 /\ pc = "done"
    /\ \E i \in Rows(df) :
          /\ IsNum(df[i].preco)
          /\ df[i].tipo_cartucho = Str(CATEGORIA_AUSENTE_OU_INVALIDA)
    /\ \E i \in Rows(df) : /\ IsNum(df[i].desvio_preco_media_categoria)
                           /\ df[i].desvio_preco_media_categoria # Zero

====
